---- MODULE Spec2Model ----
(***************************************************************************)
(* Model of the SHARP PyTorch -> Core ML conversion tool                   *)
(* (addons/apple_native/ofxSharp/scripts/convert_to_coreml.py):            *)
(* the output decomposition of SharpModelWrapper.forward, the checkpoint   *)
(* loader, the conversion procedure, the validation procedure and main().  *)
(*                                                                         *)
(* Floating point values are modelled as integers (fixed point): the       *)
(* claims only compare differences with a tolerance.  Calls into torch and *)
(* coremltools either return or raise; every such call that can raise is a *)
(* nondeterministic choice between the two.                                *)
(***************************************************************************)
EXTENDS Integers, Sequences, FiniteSets, TLC

VARIABLES
    pc,           \* position of the run inside main() and the functions it calls
    args,         \* the parsed command line (argparse namespace)
    file,         \* the checkpoint file at args.input
    stateDict,    \* load_pytorch_model: local state_dict
    model,        \* the nn.Sequential instance (pytorch_model)
    loader,       \* load_pytorch_model: binding attempts made, warnings printed
    convArgs,     \* arguments main() passed to convert_to_coreml
    mlmodel,      \* convert_to_coreml: local mlmodel
    convLog,      \* convert_to_coreml: the steps executed so far, in order
    artifact,     \* what is stored at the destination path
    fs,           \* directories created, number of mlmodel.save calls
    valArgs,      \* arguments main() passed to validate_coreml_model
    raw,          \* raw output tensor of the wrapped model, (1, N, 14)
    parts,        \* result of SharpModelWrapper.forward
    coremlOut,    \* validate_coreml_model: coreml_output
    cmp,          \* validate_coreml_model: loop index, all_passed, per output results
    counters,     \* executions of the wrapper (forward) and of mlmodel.predict
    calls,        \* call/return events of the three stages, in order
    outcome       \* exit status, stage that raised, result of validation

vars == <<pc, args, file, stateDict, model, loader, convArgs, mlmodel, convLog,
          artifact, fs, valArgs, raw, parts, coremlOut, cmp, counters, calls,
          outcome>>

----------------------------------------------------------------------------
(* Bounds of the model *)

\* largest number N of Gaussian primitives of a decomposed tensor
MaxN == 2
\* rows of a raw tensor are generated as j |-> (a*j + b) % 17, a, b \in 0..MaxCoef
MaxCoef == 3
\* largest per-output numerical drift of the converted model
MaxDrift == 1
\* largest tolerance given on the command line
MaxTol == 2
\* number of primitives the model yields in a pipeline run
ValN == 1

(* Program constants *)

\* width of the raw per-primitive vector: nn.Linear(64, 1000 * 14)
ParamWidth == 14

----------------------------------------------------------------------------
(* Tensors: a shape (batch, N, width) and the nested data *)

Min(a, b) == IF a < b THEN a ELSE b
Max(a, b) == IF a > b THEN a ELSE b
Abs(x) == IF x < 0 THEN -x ELSE x

SetMax(S) == CHOOSE m \in S : \A x \in S : x <= m

MkTensor(rows, width) ==
    [shape |-> <<1, Len(rows), width>>, data |-> <<rows>>]

Row(a, b) == [j \in 1..ParamWidth |-> (a * j + b) % 17]

Rows == {Row(a, b) : a \in 0..MaxCoef, b \in 0..MaxCoef}

RECURSIVE SeqsUpTo(_, _)
SeqsUpTo(S, n) ==
    IF n = 0 THEN {<< >>}
    ELSE LET shorter == SeqsUpTo(S, n - 1)
         IN  shorter \cup {Append(s, x) : s \in {t \in shorter : Len(t) = n - 1}, x \in S}

RawTensors == {MkTensor(rows, ParamWidth) : rows \in SeqsUpTo(Rows, MaxN)}

\* t[:, :, lo:hi] with Python's clipping of slice bounds
SliceLast(t, lo, hi) ==
    LET w == t.shape[3]
        a == Min(lo, w)
        b == Max(a, Min(hi, w))
    IN  [shape |-> <<t.shape[1], t.shape[2], b - a>>,
         data  |-> [i \in 1..t.shape[1] |->
                      [j \in 1..t.shape[2] |-> SubSeq(t.data[i][j], a + 1, b)]]]

\* the names of the five outputs, in the order forward returns them
OutputNames == <<"positions", "colors", "opacities", "scales", "rotations">>

\* forward() with opacities sliced as [6:8): overlaps the scales
DecomposeOverlap(output) ==
    << SliceLast(output, 0, 3), SliceLast(output, 3, 6), SliceLast(output, 6, 8),
       SliceLast(output, 7, 10), SliceLast(output, 10, 14) >>

\* SharpModelWrapper.forward, after self.model(image): the five slices
Decompose(output) ==
    << SliceLast(output, 0, 3),      \* positions
       SliceLast(output, 3, 6),      \* colors
       SliceLast(output, 6, 7),      \* opacities
       SliceLast(output, 7, 10),     \* scales
       SliceLast(output, 10, 14) >>  \* rotations

----------------------------------------------------------------------------
(* Checkpoints and the weights they hold *)

\* parameters of the placeholder nn.Sequential: Conv2d is module 0, Linear is 4
ModelKeys == {"0.weight", "0.bias", "4.weight", "4.bias"}

\* a key no parameter of the architecture has
ExtraKey == "extra.weight"

\* A deserialized container.  ismap: it is a dict; top: its entries that are
\* tensors ("good": the shape the architecture expects, "badshape": another
\* shape); nested: its entries under the recognized keys 'model', 'state_dict'.
Container(ismap, top, nested) == [ismap |-> ismap, top |-> top, nested |-> nested]

\* a container that is no dict, such as a pickled module
Object == Container(FALSE, << >>, << >>)

\* a dict of named tensors
Weights(top) == Container(TRUE, top, << >>)

TensorKinds(k) == IF k \in ModelKeys THEN {"good", "badshape"} ELSE {"good"}

WeightsOver(K) ==
    {Weights(t) : t \in {f \in [K -> {"good", "badshape"}] : \A k \in K : f[k] \in TensorKinds(k)}}

\* every weights collection of the model: dicts over any subset of the keys, and a non-dict
WeightColls ==
    UNION {WeightsOver(K) : K \in SUBSET (ModelKeys \cup {ExtraKey})} \cup {Object}

FullGood == Weights([k \in ModelKeys |-> "good"])
Empty == Weights(<< >>)

\* the second collection of a checkpoint holding both keys
Others(W) == {FullGood, Empty} \ {W}

Nestings == {"top", "model", "state_dict", "both"}

\* the deserialized checkpoint holding W with the given nesting
Wrap(nesting, W, other) ==
    CASE nesting = "top"        -> W
      [] nesting = "model"      -> Container(TRUE, << >>, [k \in {"model"} |-> W])
      [] nesting = "state_dict" -> Container(TRUE, << >>, [k \in {"state_dict"} |-> W])
      [] nesting = "both"       ->
            Container(TRUE, << >>,
                      [k \in {"model", "state_dict"} |-> IF k = "model" THEN W ELSE other])

\* a checkpoint file: whether torch.load can deserialize it, what it holds and how
\* (nesting and W describe how content was built; the program reads content only)
CheckpointFile(loadable, nesting, W, other) ==
    [loadable |-> loadable, nesting |-> nesting, W |-> W,
     content |-> Wrap(nesting, W, other)]

Corrupt == CheckpointFile(FALSE, "top", Empty, Empty)

AllCheckpoints ==
    {Corrupt} \cup
    {CheckpointFile(TRUE, n, W, W) : n \in Nestings \ {"both"}, W \in WeightColls} \cup
    UNION {{CheckpointFile(TRUE, "both", W, o) : o \in Others(W)} : W \in WeightColls}

\* the checkpoints a pipeline run is started with: one of each kind
PipelineCheckpoints ==
    { Corrupt,
      CheckpointFile(TRUE, "top", FullGood, FullGood),
      CheckpointFile(TRUE, "model",
                     Weights([k \in {"0.weight", ExtraKey} |-> "good"]), Empty),
      CheckpointFile(TRUE, "state_dict",
                     Weights([k \in ModelKeys |-> IF k = "4.weight" THEN "badshape" ELSE "good"]),
                     Empty),
      CheckpointFile(TRUE, "model", Object, Empty) }

Keys(c) == DOMAIN c.top \cup DOMAIN c.nested

\* the extraction with the recognized keys looked up in the other order
ExtractStateDictFirst(checkpoint) ==
    IF checkpoint.ismap
    THEN IF "state_dict" \in Keys(checkpoint) THEN checkpoint.nested["state_dict"]
         ELSE IF "model" \in Keys(checkpoint) THEN checkpoint.nested["model"]
         ELSE checkpoint
    ELSE checkpoint

\* load_pytorch_model: "Extract model state dict"
ExtractStateDict(checkpoint) ==
    IF checkpoint.ismap
    THEN IF "model" \in Keys(checkpoint) THEN checkpoint.nested["model"]
         ELSE IF "state_dict" \in Keys(checkpoint) THEN checkpoint.nested["state_dict"]
         ELSE checkpoint
    ELSE checkpoint

(* nn.Module.load_state_dict as load_pytorch_model uses it *)

MissingKeys(sd) == ModelKeys \ Keys(sd)
UnexpectedKeys(sd) == Keys(sd) \ ModelKeys
SizeMismatch(sd) == {k \in ModelKeys \cap DOMAIN sd.top : sd.top[k] = "badshape"}

\* the parameters load_state_dict copies into the model (also when it then raises)
Copied(sd) == {k \in ModelKeys \cap DOMAIN sd.top : sd.top[k] = "good"}

\* "ok", or the exception raised
BindResult(sd, strict) ==
    IF ~sd.ismap THEN "TypeError"
    ELSE IF SizeMismatch(sd) # {} THEN "RuntimeError"
    ELSE IF strict /\ (MissingKeys(sd) # {} \/ UnexpectedKeys(sd) # {}) THEN "RuntimeError"
    ELSE "ok"

BindInto(m, sd) ==
    IF sd.ismap
    THEN [m EXCEPT !.weights = [k \in ModelKeys |-> IF k \in Copied(sd) THEN "loaded" ELSE @[k]]]
    ELSE m

----------------------------------------------------------------------------
(* Values of the state *)

NoModel == [id |-> 0, weights |-> [k \in ModelKeys |-> "none"], training |-> FALSE]

\* the nn.Sequential placeholder as constructed: random weights, training mode
NewModel == [id |-> 1, weights |-> [k \in ModelKeys |-> "random"], training |-> TRUE]

NoMLModel == [built |-> FALSE, inputName |-> "", inputShape |-> << >>, outputs |-> << >>,
              metadata |-> FALSE, descriptions |-> {}, quantized |-> FALSE]

NoArtifact == [present |-> FALSE, complete |-> FALSE, path |-> "", content |-> NoMLModel]

NoCall == [model |-> 0, shape |-> << >>, path |-> "", quantize |-> FALSE, tolerance |-> 0]

NoTensor == [shape |-> <<0, 0, 0>>, data |-> << >>]

NoCmp == [i |-> 0, allPassed |-> TRUE, results |-> << >>]

NoOutcome == [exitCode |-> -1, raisedIn |-> "none", validation |-> "none"]

OutputPaths == {"sharp.mlpackage", "models/sharp.mlpackage"}

\* os.path.dirname on the output paths of the model
DirName(path) == IF path = "models/sharp.mlpackage" THEN "models" ELSE ""

\* (height, width) pairs: the default and the documented custom resolution
Resolutions == {<<512, 512>>, <<768, 1024>>}

ArgSets ==
    [inputExists : BOOLEAN, output : OutputPaths, shape : Resolutions,
     quantize : BOOLEAN, skipValidation : BOOLEAN, tolerance : 0..MaxTol]

DefaultArgs ==
    [inputExists |-> TRUE, output |-> "sharp.mlpackage", shape |-> <<512, 512>>,
     quantize |-> FALSE, skipValidation |-> FALSE, tolerance |-> 1]

\* the state before main() has done anything, but for pc, args, file and raw
Fresh ==
    /\ stateDict = Object
    /\ model = NoModel
    /\ loader = [attempts |-> 0, warnings |-> 0]
    /\ convArgs = NoCall
    /\ mlmodel = NoMLModel
    /\ convLog = << >>
    /\ artifact = NoArtifact
    /\ fs = [dirs |-> {}, saves |-> 0]
    /\ valArgs = NoCall
    /\ parts = << >>
    /\ coremlOut = << >>
    /\ cmp = NoCmp
    /\ counters = [forward |-> 0, predict |-> 0]
    /\ calls = << >>
    /\ outcome = NoOutcome

----------------------------------------------------------------------------
(* The decomposition on its own: forward applied to any raw tensor *)

InitDecomp ==
    /\ pc = "forward"
    /\ args = DefaultArgs
    /\ file = Corrupt
    /\ raw \in RawTensors
    /\ Fresh

\* SharpModelWrapper.forward on the raw output held in raw
WrapperForward ==
    /\ pc = "forward"
    /\ parts' = Decompose(raw)
    /\ counters' = [counters EXCEPT !.forward = @ + 1]
    /\ pc' = "returned"
    /\ UNCHANGED <<args, file, stateDict, model, loader, convArgs, mlmodel, convLog,
                   artifact, fs, valArgs, raw, coremlOut, cmp, calls, outcome>>

NextDecomp == WrapperForward

SpecDecomp == InitDecomp /\ [][NextDecomp]_vars

----------------------------------------------------------------------------
(* One run of the tool: main() and the functions it calls *)

inputVars == <<args, file>>
loadVars == <<stateDict, model, loader>>
convVars == <<convArgs, mlmodel, convLog, artifact, fs>>
valVars == <<valArgs, raw, parts, coremlOut, cmp>>

\* an exception propagates to the try block of main()
Raise(stage) ==
    /\ pc' = "except"
    /\ outcome' = [outcome EXCEPT !.raisedIn = stage]

\* main(): "Check input file"
CheckInput ==
    /\ pc = "check_input"
    /\ IF args.inputExists
       THEN pc' = "makedirs" /\ UNCHANGED outcome
       ELSE pc' = "done" /\ outcome' = [outcome EXCEPT !.exitCode = 1]
    /\ UNCHANGED <<inputVars, loadVars, convVars, valVars, counters, calls>>

\* main(): "Create output directory"; os.makedirs is outside the try block, so an
\* OSError ends the process with the interpreter's exit status 1
MakeDirs ==
    /\ pc = "makedirs"
    /\ LET dir == DirName(args.output)
       IN  \/ /\ dir = ""
              /\ pc' = "main_load"
              /\ UNCHANGED <<fs, outcome>>
           \/ /\ dir # ""
              /\ fs' = [fs EXCEPT !.dirs = @ \cup {dir}]
              /\ pc' = "main_load"
              /\ UNCHANGED outcome
           \/ /\ dir # ""
              /\ pc' = "done"
              /\ outcome' = [outcome EXCEPT !.exitCode = 1, !.raisedIn = "makedirs"]
              /\ UNCHANGED fs
    /\ UNCHANGED <<inputVars, loadVars, convArgs, mlmodel, convLog, artifact, valVars,
                   counters, calls>>

\* main(): pytorch_model = load_pytorch_model(args.input)
MainLoad ==
    /\ pc = "main_load"
    /\ calls' = Append(calls, "load.call")
    /\ pc' = "load_deserialize"
    /\ UNCHANGED <<inputVars, loadVars, convVars, valVars, counters, outcome>>

\* load_pytorch_model: torch.load, the extraction of the state dict, the architecture
LoadDeserialize ==
    /\ pc = "load_deserialize"
    /\ IF file.loadable
       THEN /\ stateDict' = ExtractStateDict(file.content)
            /\ model' = NewModel
            /\ pc' = "bind_strict"
            /\ UNCHANGED outcome
       ELSE /\ Raise("load")
            /\ UNCHANGED <<stateDict, model>>
    /\ UNCHANGED <<inputVars, loader, convVars, valVars, counters, calls>>

\* the strict attempt with its RuntimeError propagating instead of being caught
LoadBindStrictNoFallback ==
    /\ pc = "bind_strict"
    /\ loader' = [loader EXCEPT !.attempts = @ + 1]
    /\ model' = BindInto(model, stateDict)
    /\ IF BindResult(stateDict, TRUE) = "ok"
       THEN pc' = "load_eval" /\ UNCHANGED outcome
       ELSE Raise("load")
    /\ UNCHANGED <<inputVars, stateDict, convVars, valVars, counters, calls>>

\* load_pytorch_model: try: model.load_state_dict(state_dict); only a RuntimeError
\* is caught
LoadBindStrict ==
    /\ pc = "bind_strict"
    /\ loader' = [loader EXCEPT !.attempts = @ + 1]
    /\ model' = BindInto(model, stateDict)
    /\ LET r == BindResult(stateDict, TRUE)
       IN  \/ r = "ok" /\ pc' = "load_eval" /\ UNCHANGED outcome
           \/ r = "RuntimeError" /\ pc' = "bind_relaxed" /\ UNCHANGED outcome
           \/ r = "TypeError" /\ Raise("load")
    /\ UNCHANGED <<inputVars, stateDict, convVars, valVars, counters, calls>>

\* load_pytorch_model: the except clause: the warning and the strict=False attempt
LoadBindRelaxed ==
    /\ pc = "bind_relaxed"
    /\ loader' = [attempts |-> loader.attempts + 1, warnings |-> loader.warnings + 1]
    /\ model' = BindInto(model, stateDict)
    /\ IF BindResult(stateDict, FALSE) = "ok"
       THEN pc' = "load_eval" /\ UNCHANGED outcome
       ELSE Raise("load")
    /\ UNCHANGED <<inputVars, stateDict, convVars, valVars, counters, calls>>

\* load_pytorch_model: model.eval(); return model
LoadEval ==
    /\ pc = "load_eval"
    /\ model' = [model EXCEPT !.training = FALSE]
    /\ calls' = Append(calls, "load.ret")
    /\ pc' = "main_convert"
    /\ UNCHANGED <<inputVars, stateDict, loader, convVars, valVars, counters, outcome>>

\* main(): mlmodel = convert_to_coreml(pytorch_model, args.output, ...)
MainConvert ==
    /\ pc = "main_convert"
    /\ convArgs' = [model |-> model.id, shape |-> args.shape, path |-> args.output,
                    quantize |-> args.quantize, tolerance |-> 0]
    /\ calls' = Append(calls, "convert.call")
    /\ pc' = "conv_trace"
    /\ UNCHANGED <<inputVars, loadVars, mlmodel, convLog, artifact, fs, valVars,
                   counters, outcome>>

----------------------------------------------------------------------------
(* convert_to_coreml *)

\* the tracing step writing the (still empty) model to the destination as well
ConvTraceSavesEarly ==
    /\ pc = "conv_trace"
    /\ model' = [model EXCEPT !.training = FALSE]
    /\ counters' = [counters EXCEPT !.forward = @ + 1]
    /\ convLog' = Append(convLog, "trace")
    /\ fs' = [fs EXCEPT !.saves = @ + 1]
    /\ artifact' = [present |-> TRUE, complete |-> TRUE, path |-> convArgs.path,
                    content |-> mlmodel]
    /\ pc' = "conv_convert"
    /\ UNCHANGED <<inputVars, stateDict, loader, convArgs, mlmodel, valVars, calls, outcome>>

\* convert_to_coreml: wrap the model, eval(), example input, torch.jit.trace: one
\* execution of the wrapper's forward
ConvTrace ==
    /\ pc = "conv_trace"
    /\ model' = [model EXCEPT !.training = FALSE]
    /\ \/ /\ counters' = [counters EXCEPT !.forward = @ + 1]
          /\ convLog' = Append(convLog, "trace")
          /\ pc' = "conv_convert"
          /\ UNCHANGED outcome
       \/ /\ Raise("trace")
          /\ UNCHANGED <<counters, convLog>>
    /\ UNCHANGED <<inputVars, stateDict, loader, convArgs, mlmodel, artifact, fs, valVars,
                   calls>>

\* convert_to_coreml: ct.convert with the input 'image' and the five named outputs
ConvConvert ==
    /\ pc = "conv_convert"
    /\ \/ /\ mlmodel' = [built |-> TRUE, inputName |-> "image",
                         inputShape |-> <<1, 3>> \o convArgs.shape,
                         outputs |-> OutputNames, metadata |-> FALSE,
                         descriptions |-> {}, quantized |-> FALSE]
          /\ convLog' = Append(convLog, "schema")
          /\ pc' = "conv_metadata"
          /\ UNCHANGED outcome
       \/ /\ Raise("convert")
          /\ UNCHANGED <<mlmodel, convLog>>
    /\ UNCHANGED <<inputVars, loadVars, convArgs, artifact, fs, valVars, counters, calls>>

\* convert_to_coreml: author, license, description, version, port descriptions
ConvMetadata ==
    /\ pc = "conv_metadata"
    /\ mlmodel' = [mlmodel EXCEPT !.metadata = TRUE,
                                  !.descriptions = {"image"} \cup
                                      {OutputNames[k] : k \in 1..Len(OutputNames)}]
    /\ convLog' = Append(convLog, "metadata")
    /\ pc' = "conv_quantize"
    /\ UNCHANGED <<inputVars, loadVars, convArgs, artifact, fs, valVars, counters, calls,
                   outcome>>

\* convert_to_coreml: if quantize: quantize_weights(mlmodel, nbits=8)
ConvQuantize ==
    /\ pc = "conv_quantize"
    /\ \/ /\ ~convArgs.quantize
          /\ pc' = "conv_save"
          /\ UNCHANGED <<mlmodel, convLog, outcome>>
       \/ /\ convArgs.quantize
          /\ mlmodel' = [mlmodel EXCEPT !.quantized = TRUE]
          /\ convLog' = Append(convLog, "quantize")
          /\ pc' = "conv_save"
          /\ UNCHANGED outcome
       \/ /\ convArgs.quantize
          /\ Raise("quantize")
          /\ UNCHANGED <<mlmodel, convLog>>
    /\ UNCHANGED <<inputVars, loadVars, convArgs, artifact, fs, valVars, counters, calls>>

\* convert_to_coreml: mlmodel.save(output_path); return mlmodel.  A save that
\* raises may leave nothing or an incomplete package behind.
ConvSave ==
    /\ pc = "conv_save"
    /\ fs' = [fs EXCEPT !.saves = @ + 1]
    /\ \/ /\ artifact' = [present |-> TRUE, complete |-> TRUE, path |-> convArgs.path,
                          content |-> mlmodel]
          /\ convLog' = Append(convLog, "save")
          /\ calls' = Append(calls, "convert.ret")
          /\ pc' = "main_validate"
          /\ UNCHANGED outcome
       \/ /\ artifact' \in {artifact,
                            [present |-> TRUE, complete |-> FALSE, path |-> convArgs.path,
                             content |-> mlmodel]}
          /\ Raise("save")
          /\ UNCHANGED <<convLog, calls>>
    /\ UNCHANGED <<inputVars, loadVars, convArgs, mlmodel, valVars, counters>>

----------------------------------------------------------------------------
(* validate_coreml_model *)

\* main() calling the validation whatever --skip-validation says
MainValidateAlways ==
    /\ pc = "main_validate"
    /\ valArgs' = [model |-> model.id, shape |-> args.shape, path |-> "",
                   quantize |-> FALSE, tolerance |-> args.tolerance]
    /\ calls' = Append(calls, "validate.call")
    /\ pc' = "val_inference"
    /\ UNCHANGED <<inputVars, loadVars, convVars, raw, parts, coremlOut, cmp, counters,
                   outcome>>

\* main() passing (width, height) to the validation
MainValidateSwapped ==
    /\ pc = "main_validate"
    /\ IF ~args.skipValidation
       THEN /\ valArgs' = [model |-> model.id, shape |-> <<args.shape[2], args.shape[1]>>,
                           path |-> "", quantize |-> FALSE, tolerance |-> args.tolerance]
            /\ calls' = Append(calls, "validate.call")
            /\ pc' = "val_inference"
       ELSE /\ pc' = "main_success"
            /\ UNCHANGED <<valArgs, calls>>
    /\ UNCHANGED <<inputVars, loadVars, convVars, raw, parts, coremlOut, cmp, counters,
                   outcome>>

\* main(): if not args.skip_validation: validate_coreml_model(mlmodel, pytorch_model, ...)
MainValidate ==
    /\ pc = "main_validate"
    /\ IF ~args.skipValidation
       THEN /\ valArgs' = [model |-> model.id, shape |-> args.shape, path |-> "",
                           quantize |-> FALSE, tolerance |-> args.tolerance]
            /\ calls' = Append(calls, "validate.call")
            /\ pc' = "val_inference"
       ELSE /\ pc' = "main_success"
            /\ UNCHANGED <<valArgs, calls>>
    /\ UNCHANGED <<inputVars, loadVars, convVars, raw, parts, coremlOut, cmp, counters,
                   outcome>>

\* the raw outputs the model gives on the random test input
PipelineRaw == {MkTensor([i \in 1..ValN |-> Row(a, i)], ParamWidth) : a \in 1..2}

\* validate_coreml_model: test input, pytorch_model.eval(), the wrapper's forward
ValInference ==
    /\ pc = "val_inference"
    /\ model' = [model EXCEPT !.training = FALSE]
    /\ raw' \in PipelineRaw
    /\ parts' = Decompose(raw')
    /\ counters' = [counters EXCEPT !.forward = @ + 1]
    /\ pc' = "val_predict"
    /\ UNCHANGED <<inputVars, stateDict, loader, convVars, valArgs, coremlOut, cmp, calls,
                   outcome>>

\* t with e added to the first column of its last primitive
Perturb(t, e) ==
    [t EXCEPT !.data = [i \in 1..t.shape[1] |->
                          [j \in 1..t.shape[2] |->
                             [c \in 1..t.shape[3] |->
                                IF j = t.shape[2] /\ c = 1
                                THEN t.data[i][j][c] + e ELSE t.data[i][j][c]]]]]

Index(name) == CHOOSE k \in 1..Len(OutputNames) : OutputNames[k] = name

\* validate_coreml_model: mlmodel.predict: the five outputs by name, each drifted
\* from the reference by at most MaxDrift; predict raises where the runtime is
\* missing or the input has another shape than the traced one
ValPredict ==
    /\ pc = "val_predict"
    /\ counters' = [counters EXCEPT !.predict = @ + 1]
    /\ \/ /\ <<1, 3>> \o valArgs.shape = mlmodel.inputShape
          /\ \E sign \in {-1, 1} : \E d \in [1..Len(OutputNames) -> 0..MaxDrift] :
                coremlOut' = [name \in {OutputNames[k] : k \in 1..Len(OutputNames)} |->
                                Perturb(parts[Index(name)], sign * d[Index(name)])]
          /\ pc' = "val_compare"
          /\ UNCHANGED outcome
       \/ /\ Raise("predict")
          /\ UNCHANGED coremlOut
    /\ UNCHANGED <<inputVars, loadVars, convVars, valArgs, raw, parts, cmp, calls>>

\* np.max(np.abs(pt_np - coreml_np))
MaxAbsDiff(a, b) ==
    SetMax({Abs(a.data[i][j][c] - b.data[i][j][c]) :
               i \in 1..a.shape[1], j \in 1..a.shape[2], c \in 1..a.shape[3]})

PassedLeq(maxDiff, tolerance) == maxDiff <= tolerance

\* passed = max_diff < tolerance
Passed(maxDiff, tolerance) == maxDiff < tolerance

\* validate_coreml_model: one iteration of "for name, pt_tensor in outputs"
ValCompare ==
    /\ pc = "val_compare"
    /\ LET name    == OutputNames[cmp.i + 1]
           maxDiff == MaxAbsDiff(parts[cmp.i + 1], coremlOut[name])
           passed  == Passed(maxDiff, valArgs.tolerance)
       IN  /\ cmp' = [i |-> cmp.i + 1, allPassed |-> cmp.allPassed /\ passed,
                      results |-> Append(cmp.results,
                                         [name |-> name, maxDiff |-> maxDiff, passed |-> passed])]
           /\ pc' = IF cmp.i + 1 = Len(OutputNames) THEN "val_return" ELSE "val_compare"
    /\ UNCHANGED <<inputVars, loadVars, convVars, valArgs, raw, parts, coremlOut, counters,
                   calls, outcome>>

\* a validation that removes the artifact it found to differ
ValReturnDeletes ==
    /\ pc = "val_return"
    /\ outcome' = [outcome EXCEPT !.validation = IF cmp.allPassed THEN "passed" ELSE "failed"]
    /\ artifact' = IF cmp.allPassed THEN artifact ELSE NoArtifact
    /\ calls' = Append(calls, "validate.ret")
    /\ pc' = "main_success"
    /\ UNCHANGED <<inputVars, loadVars, convArgs, mlmodel, convLog, fs, valVars, counters>>

\* validate_coreml_model: the verdict printed; return all_passed
ValReturn ==
    /\ pc = "val_return"
    /\ outcome' = [outcome EXCEPT !.validation = IF cmp.allPassed THEN "passed" ELSE "failed"]
    /\ calls' = Append(calls, "validate.ret")
    /\ pc' = "main_success"
    /\ UNCHANGED <<inputVars, loadVars, convVars, valVars, counters>>

----------------------------------------------------------------------------
(* main(): the two ends of the try block *)

\* a main() that turns a failed validation into exit status 1
MainSuccessChecksValidation ==
    /\ pc = "main_success"
    /\ outcome' = [outcome EXCEPT !.exitCode = IF outcome.validation = "failed" THEN 1 ELSE 0]
    /\ pc' = "done"
    /\ UNCHANGED <<inputVars, loadVars, convVars, valVars, counters, calls>>

\* main(): the SUCCESS banner; the process ends with status 0
MainSuccess ==
    /\ pc = "main_success"
    /\ outcome' = [outcome EXCEPT !.exitCode = 0]
    /\ pc' = "done"
    /\ UNCHANGED <<inputVars, loadVars, convVars, valVars, counters, calls>>

\* main(): except Exception: the ERROR banner, the traceback, sys.exit(1)
MainExcept ==
    /\ pc = "except"
    /\ outcome' = [outcome EXCEPT !.exitCode = 1]
    /\ pc' = "done"
    /\ UNCHANGED <<inputVars, loadVars, convVars, valVars, counters, calls>>

----------------------------------------------------------------------------
(* The specifications *)

\* a run of the tool on any command line, on one checkpoint of each kind
Init ==
    /\ pc = "check_input"
    /\ args \in ArgSets
    /\ file \in PipelineCheckpoints
    /\ raw = NoTensor
    /\ Fresh

Next ==
    \/ CheckInput
    \/ MakeDirs
    \/ MainLoad
    \/ LoadDeserialize
    \/ LoadBindStrict
    \/ LoadBindRelaxed
    \/ LoadEval
    \/ MainConvert
    \/ ConvTrace
    \/ ConvConvert
    \/ ConvMetadata
    \/ ConvQuantize
    \/ ConvSave
    \/ MainValidate
    \/ ValInference
    \/ ValPredict
    \/ ValCompare
    \/ ValReturn
    \/ MainSuccess
    \/ MainExcept

Spec == Init /\ [][Next]_vars

\* the loader on every checkpoint, called by main() on an existing input file
InitLoad ==
    /\ pc = "main_load"
    /\ args = DefaultArgs
    /\ file \in AllCheckpoints
    /\ raw = NoTensor
    /\ Fresh

NextLoad ==
    \/ MainLoad
    \/ LoadDeserialize
    \/ LoadBindStrict
    \/ LoadBindRelaxed
    \/ LoadEval
    \/ MainExcept

SpecLoad == InitLoad /\ [][NextLoad]_vars

----------------------------------------------------------------------------
(* C1: the decomposition *)

RECURSIVE Flatten(_)
Flatten(ss) == IF ss = << >> THEN << >> ELSE Head(ss) \o Flatten(Tail(ss))

RECURSIVE SumWidths(_)
SumWidths(ts) == IF ts = << >> THEN 0 ELSE Head(ts).shape[3] + SumWidths(Tail(ts))

\* concatenation of tensors along the last axis
CatLast(ts) ==
    [shape |-> <<ts[1].shape[1], ts[1].shape[2], SumWidths(ts)>>,
     data  |-> [i \in 1..ts[1].shape[1] |->
                  [j \in 1..ts[1].shape[2] |->
                     Flatten([k \in 1..Len(ts) |-> ts[k].data[i][j]])]]]

\* the half-open column ranges the claim names, in the order of the outputs
C1_Ranges == << <<0, 3>>, <<3, 6>>, <<6, 7>>, <<7, 10>>, <<10, 14>> >>

C1_Columns(k) == {c \in 0..(ParamWidth - 1) : C1_Ranges[k][1] <= c /\ c < C1_Ranges[k][2]}

----------------------------------------------------------------------------
(* Helpers of the claims *)

Has(seq, x) == \E i \in 1..Len(seq) : seq[i] = x

IsPrefix(s, t) == Len(s) <= Len(t) /\ \A i \in 1..Len(s) : s[i] = t[i]

Last(seq) == seq[Len(seq)]

LoadPcs == {"load_deserialize", "bind_strict", "bind_relaxed", "load_eval"}
ConvPcs == {"conv_trace", "conv_convert", "conv_metadata", "conv_quantize", "conv_save"}
ValPcs == {"val_inference", "val_predict", "val_compare", "val_return"}

----------------------------------------------------------------------------
(* C2: the comparison of validate_coreml_model *)

\* the absolute element-wise differences of output k between reference and candidate
C2_Diffs(k) ==
    {Abs(parts[k].data[i][j][c] - coremlOut[OutputNames[k]].data[i][j][c]) :
        i \in 1..parts[k].shape[1], j \in 1..parts[k].shape[2], c \in 1..parts[k].shape[3]}

----------------------------------------------------------------------------
(* C3: the exit status *)

\* C3 as stated: status 0 whenever the input exists and loading and conversion
\* returned, status 1 when the input is absent or loading or conversion raised, and
\* a failed validation leaves the status alone.
C3_Original ==
    pc = "done" =>
        /\ args.inputExists /\ Has(calls, "load.ret") /\ Has(calls, "convert.ret")
              => outcome.exitCode = 0
        /\ ~args.inputExists \/ outcome.raisedIn \in {"load", "trace", "convert", "quantize", "save"}
              => outcome.exitCode = 1
        /\ outcome.validation = "failed" => outcome.exitCode = 0

\* C3 as amended: status 0 whenever the input exists, loading and conversion returned
\* and validation was skipped or returned (passed or failed); status 1 when the input
\* is absent or loading, conversion or validation raised; a failed validation never
\* changes the status.
C3_ExitStatus ==
    pc = "done" =>
        /\ (/\ args.inputExists /\ Has(calls, "load.ret") /\ Has(calls, "convert.ret")
            /\ args.skipValidation \/ Has(calls, "validate.ret"))
              => outcome.exitCode = 0
        /\ (\/ ~args.inputExists
            \/ outcome.raisedIn \in {"load", "trace", "convert", "quantize", "save", "predict"})
              => outcome.exitCode = 1
        /\ outcome.validation = "failed" => outcome.exitCode = 0

\* a finished run whose validation failed
C3_Witness ==
    /\ pc = "done"
    /\ outcome.validation = "failed"
    /\ outcome.exitCode = 0

----------------------------------------------------------------------------
(* C4, C5, C6: load_pytorch_model *)

\* C4 as stated: the loader returns only if the checkpoint was deserialized and at
\* least one weight was bound, so never a model that still has all its random weights.
C4_NeverRandomModel ==
    Has(calls, "load.ret") =>
        /\ file.loadable
        /\ Copied(stateDict) # {}
        /\ \E k \in ModelKeys : model.weights[k] = "loaded"

\* the strict attempt fails on the state dict, and only because of its keys
C5_KeysOnly ==
    /\ stateDict.ismap
    /\ MissingKeys(stateDict) # {} \/ UnexpectedKeys(stateDict) # {}
    /\ SizeMismatch(stateDict) = {}

\* C5: binding is attempted at most twice, strict then relaxed; when the strict
\* attempt fails on missing or unexpected keys only, the loader does not raise: it
\* makes exactly one more attempt, relaxed, prints one warning and returns the model
\* in evaluation mode.
C5_RelaxedFallback ==
    /\ loader.attempts <= 2
    /\ loader.warnings <= 1
    /\ loader.warnings = 1 <=> loader.attempts = 2
    /\ C5_KeysOnly =>
          /\ pc # "except" /\ outcome.raisedIn = "none" /\ outcome.exitCode # 1
          /\ pc = "bind_relaxed" => loader.attempts = 1
          /\ pc = "load_eval" => loader.attempts = 2 /\ loader.warnings = 1
          /\ Has(calls, "load.ret") =>
                loader.attempts = 2 /\ loader.warnings = 1 /\ ~model.training /\ model.id # 0

\* the loader has returned after a strict attempt that failed on the keys
C5_Witness ==
    /\ C5_KeysOnly
    /\ Has(calls, "load.ret")
    /\ loader.attempts = 2
    /\ \E k \in ModelKeys : model.weights[k] = "loaded"

\* C6: the state dict selected, and the weights bound, are those of W whether the
\* checkpoint is {'model': W}, {'state_dict': W} or W itself; with both keys present
\* the collection under 'model' is selected.
C6_NestingEquivalence ==
    file.loadable /\ pc \notin {"main_load", "load_deserialize"} =>
        /\ stateDict = file.W
        /\ pc \notin {"bind_strict"} =>
              model.weights = [k \in ModelKeys |-> IF k \in Copied(file.W) THEN "loaded" ELSE "random"]
        /\ pc = "bind_relaxed" => BindResult(file.W, TRUE) = "RuntimeError"
        /\ Has(calls, "load.ret") => BindResult(file.W, FALSE) = "ok"
        /\ pc \in {"except", "done"} => BindResult(file.W, FALSE) # "ok"

\* the loader has returned on a checkpoint holding both keys with different collections
C6_Witness ==
    /\ file.nesting = "both"
    /\ file.content.nested["state_dict"] # file.content.nested["model"]
    /\ Has(calls, "load.ret")
    /\ \E k \in ModelKeys : model.weights[k] = "loaded"

----------------------------------------------------------------------------
(* C7 .. C10: the pipeline *)

StageOrder ==
    <<"load.call", "load.ret", "convert.call", "convert.ret", "validate.call", "validate.ret">>

\* C7: the stages are called in the order load, convert, validate, each at most once
\* and each only after the one before has returned; the steps of a stage run between
\* its call and its return; conversion has saved the artifact when it returns; and
\* validation is given the model and the (height, width) that conversion was given.
C7_StageOrder ==
    /\ IsPrefix(calls, StageOrder)
    /\ pc \in LoadPcs => Last(calls) = "load.call"
    /\ pc \in ConvPcs => Last(calls) = "convert.call"
    /\ pc \in ValPcs => Last(calls) = "validate.call"
    /\ Has(calls, "convert.call") =>
          convArgs.model = model.id /\ model.id # 0 /\ convArgs.shape = args.shape
    /\ Has(calls, "convert.ret") => artifact.complete /\ fs.saves = 1
    /\ Has(calls, "validate.call") =>
          /\ valArgs.model = convArgs.model
          /\ valArgs.shape = convArgs.shape
          /\ <<1, 3>> \o valArgs.shape = mlmodel.inputShape

\* a validation has returned in a run whose height and width differ
C7_Witness ==
    /\ Has(calls, "validate.ret")
    /\ args.shape[1] # args.shape[2]

\* C8: with --skip-validation the validation is never called, nothing is predicted and
\* the wrapper runs at most once; when loading and conversion returned, the artifact is
\* at the requested path and the wrapper ran exactly once, for the trace.
C8_SkipValidation ==
    args.skipValidation =>
        /\ ~Has(calls, "validate.call")
        /\ pc \notin ValPcs
        /\ counters.predict = 0
        /\ counters.forward <= 1
        /\ outcome.validation = "none"
        /\ Has(calls, "convert.ret") =>
              /\ artifact.present /\ artifact.complete /\ artifact.path = args.output
              /\ counters.forward = 1
              /\ convLog[1] = "trace"

\* a run with --skip-validation has ended with status 0
C8_Witness ==
    /\ args.skipValidation
    /\ pc = "done"
    /\ outcome.exitCode = 0
    /\ artifact.present

\* a step taken inside validate_coreml_model leaves artifact, saves and model alone
C9_StepKeeps ==
    pc \in ValPcs => (artifact' = artifact /\ fs' = fs /\ model' = model)

\* C9: no step of the validation changes the artifact, the number of saves, or the
\* weights and the mode of the model; after a failed validation the artifact that
\* conversion saved is still there, as saved.
C9_ValidationReadOnly ==
    /\ [][C9_StepKeeps]_vars
    /\ [](outcome.validation = "failed" =>
             artifact = [present |-> TRUE, complete |-> TRUE, path |-> args.output,
                         content |-> mlmodel])

\* a validation has failed with the artifact in place
C9_Witness ==
    /\ outcome.validation = "failed"
    /\ artifact.present
    /\ ~model.training

\* the steps of a conversion that returns, in order
C10_FullLog ==
    <<"trace", "schema", "metadata">>
        \o (IF args.quantize THEN <<"quantize">> ELSE << >>) \o <<"save">>

\* C10: the artifact is saved at most once and as the last step of the conversion,
\* after tracing, schema, metadata and, with --quantize, quantization (itself after
\* tracing); a run that raised in loading, tracing, conversion or quantization has
\* written nothing to the destination.
C10_SaveLast ==
    /\ fs.saves <= 1
    /\ IsPrefix(convLog, C10_FullLog)
    /\ fs.saves = 1 => IsPrefix(SubSeq(C10_FullLog, 1, Len(C10_FullLog) - 1), convLog)
    /\ artifact.present =>
          /\ fs.saves = 1
          /\ artifact.content.built /\ artifact.content.metadata
          /\ artifact.content.inputName = "image"
          /\ artifact.content.outputs = OutputNames
          /\ artifact.content.quantized = args.quantize
    /\ Has(convLog, "quantize") => args.quantize /\ convLog[1] = "trace"
    /\ outcome.raisedIn \in {"load", "trace", "convert", "quantize"} =>
          fs.saves = 0 /\ artifact = NoArtifact

\* a quantized artifact has been saved
C10_Witness ==
    /\ args.quantize
    /\ artifact.complete
    /\ convLog = C10_FullLog
    /\ artifact.content.quantized

====
